---- MODULE Spec2Model ----
(***************************************************************************)
(* Notification dispatch and credit accounting of the push backend:        *)
(* the tenant credit ledger (Tenant model, CreditService, adjustCredits),  *)
(* the send pipeline (notification controller, WebPushService), the        *)
(* delivery log and the public tracking callbacks.                         *)
(*                                                                         *)
(* Documents live in the store variables (credits, customers,              *)
(* notifications, logs, transactions).  A sendNotification run is a        *)
(* process: it keeps the documents it loaded (tdoc, ndoc) and saves only   *)
(* the paths it modified, as a Mongoose save does.  The other handlers     *)
(* are one action each.                                                    *)
(***************************************************************************)
EXTENDS Integers, Sequences, FiniteSets, TLC

\* ---------------------------------------------------------------- bounds
MaxBalance == 4      \* balances are kept within 0..MaxBalance
MaxAmount  == 2      \* add / adjust amounts are drawn from -MaxAmount..MaxAmount
MaxTxns    == 2      \* no new ledger operation once this many transactions exist
MaxStat    == 3      \* tracking callbacks stop raising a counter at this value

\* ---------------------------------------------------------------- universe
TenantIds   == {"t1", "t2", "t3"}
CustomerIds == {"c1", "c2", "c3"}
NotifIds    == {"n1"}
RunIds      == {1, 2}

CustomerTenant == [c \in CustomerIds |-> IF c = "c3" THEN "t2" ELSE "t1"]
CustomerTags   == [c \in CustomerIds |-> IF c = "c1" THEN {} ELSE {"vip"}]
TenantStatus   == [t \in TenantIds |-> IF t = "t2" THEN "suspended" ELSE "active"]
AdminTenants   == {"t1"}     \* tenants the admin credit endpoints are called for
AuthorTenants  == {"t1"}     \* tenants whose users author notifications
PublicCustomers == {c \in CustomerIds : CustomerTenant[c] \in AuthorTenants}
LedgerCustomers == {"c2"}   \* the customers that opt in and out while the ledger is exercised

NoCustomer == "none"

TargetingChoices ==
  { [send_to_all |-> TRUE,  customer_ids |-> {},           tags |-> {}],
    [send_to_all |-> FALSE, customer_ids |-> {"c1", "c3"}, tags |-> {}],
    [send_to_all |-> FALSE, customer_ids |-> {},           tags |-> {"vip"}] }

PushOutcomes == {"ok", "gone404", "gone410", "transient"}

VARIABLES
  credits,        \* Tenant.credits, per tenant
  customers,      \* Customer documents: opt_in_status, unsubscribe_reason
  notifications,  \* Notification documents: tenant, status, targeting, stats, error_message
  logs,           \* NotificationLog collection, in insertion order
  transactions,   \* CreditTransaction collection, in insertion order
  runs,           \* in-flight webPushService.sendNotification runs
  resp,           \* outcome of the last handler or run
  tracked         \* history: counter increments made by tracking callbacks per (notification, customer)

vars == <<credits, customers, notifications, logs, transactions, runs, resp, tracked>>

\* ---------------------------------------------------------------- helpers
Count(S) == Cardinality(S)

\* Mongoose save: a path is written only when the document's value differs
\* from the value the document was loaded (or last saved) with.
SavePath(stored, loaded, assigned) == IF assigned = loaded THEN stored ELSE assigned

ZeroStats == [total_targeted |-> 0, total_sent |-> 0, total_delivered |-> 0,
              total_failed |-> 0, total_clicked |-> 0, credits_consumed |-> 0]

NoNotification == [tenant_id |-> "t1", status |-> "none",
                   targeting |-> [send_to_all |-> FALSE, customer_ids |-> {}, tags |-> {}],
                   stats |-> ZeroStats, error_message |-> ""]

IdleRun == [pc |-> "idle", nid |-> "n1",
            tdoc |-> [current_balance |-> 0, used_this_month |-> 0],
            ndoc |-> [status |-> "none", stats |-> ZeroStats],
            audience |-> {},
            att |-> [c \in CustomerIds |-> "none"],
            logIdx |-> [c \in CustomerIds |-> 0]]

\* the response of a handler; the send, retry and cancel handlers answer under their own name
Resp(op, result) ==
  IF op \in {"send", "retry", "cancel"} THEN op \o "_" \o result ELSE result

\* ---------------------------------------------------------------- Tenant model
\* a credit test that lets a request through one credit short
hasCredits_oneShort(cr, amount) == cr.current_balance + 1 >= amount

hasCredits(cr, amount) == cr.current_balance >= amount

consumeCredits(cr, amount) ==
  [cr EXCEPT !.current_balance = @ - amount, !.used_this_month = @ + amount]

Tenant_addCredits(cr, amount) == [cr EXCEPT !.current_balance = @ + amount]

\* a reset that grants the limit without the rolled-over balance
Tenant_resetMonthlyCredits_noCarry(cr) ==
  IF cr.rollover_enabled
    THEN [cr EXCEPT !.rollover_balance = cr.current_balance,
                    !.current_balance = cr.monthly_limit,
                    !.used_this_month = 0]
    ELSE [cr EXCEPT !.current_balance = cr.monthly_limit,
                    !.rollover_balance = 0,
                    !.used_this_month = 0]

Tenant_resetMonthlyCredits(cr) ==
  IF cr.rollover_enabled
    THEN [cr EXCEPT !.rollover_balance = cr.current_balance,
                    !.current_balance = cr.monthly_limit + cr.current_balance,
                    !.used_this_month = 0]
    ELSE [cr EXCEPT !.current_balance = cr.monthly_limit,
                    !.rollover_balance = 0,
                    !.used_this_month = 0]

\* createTransaction recording the balance after the operation in both balance fields
createTransaction_sameBalance(t, type, amount, before, after, ref) ==
  Append(transactions, [tenant_id |-> t, type |-> type, amount |-> amount,
                        balance_before |-> after, balance_after |-> after,
                        reference_id |-> ref])

\* CreditTransaction.createTransaction
createTransaction(t, type, amount, before, after, ref) ==
  Append(transactions, [tenant_id |-> t, type |-> type, amount |-> amount,
                        balance_before |-> before, balance_after |-> after,
                        reference_id |-> ref])

\* ---------------------------------------------------------------- initial state
InitCredits ==
  [monthly_limit : 1..2, current_balance : 0..2, used_this_month : {0},
   rollover_enabled : BOOLEAN, rollover_balance : {0}]

Init ==
  /\ credits \in [TenantIds -> InitCredits]
  /\ credits["t2"] = [monthly_limit |-> 2, current_balance |-> 2, used_this_month |-> 0,
                      rollover_enabled |-> TRUE, rollover_balance |-> 0]
  /\ credits["t3"] = [monthly_limit |-> 1, current_balance |-> 0, used_this_month |-> 0,
                      rollover_enabled |-> FALSE, rollover_balance |-> 0]
  /\ customers = [c \in CustomerIds |-> [opt_in_status |-> "active", unsubscribe_reason |-> ""]]
  /\ notifications = [n \in NotifIds |-> NoNotification]
  /\ logs = <<>>
  /\ transactions = <<>>
  /\ runs = [r \in RunIds |-> IdleRun]
  /\ resp = Resp("init", "ok")
  /\ tracked = [k \in {"delivered", "clicked"} |-> [n \in NotifIds |-> [c \in CustomerIds |-> 0]]]

\* ---------------------------------------------------------------- ledger handlers
InFlight == {r \in RunIds : runs[r].pc # "idle"}

\* room for one more transaction besides those in-flight runs will append
TxnRoom == Len(transactions) + Count(InFlight) < MaxTxns

\* creditController.addCredits -> CreditService.addCredits
CreditService_addCredits(t, amount) ==
  /\ TxnRoom
  /\ credits[t].current_balance + amount <= MaxBalance
  /\ IF amount <= 0
       THEN /\ resp' = Resp("add", "bad_request")
            /\ UNCHANGED <<credits, transactions>>
       ELSE LET before == credits[t].current_balance
                after  == Tenant_addCredits(credits[t], amount)
            IN /\ credits' = [credits EXCEPT ![t] = after]
               /\ transactions' = createTransaction(t, "recharge", amount, before,
                                                    after.current_balance, "manual")
               /\ resp' = Resp("add", "ok")
  /\ UNCHANGED <<customers, notifications, logs, runs, tracked>>

\* creditController.adjustCredits
adjustCredits(t, amount, hasReason) ==
  /\ TxnRoom
  /\ credits[t].current_balance + amount <= MaxBalance
  /\ IF amount = 0 \/ ~hasReason
       THEN /\ resp' = Resp("adjust", "bad_request")
            /\ UNCHANGED <<credits, transactions>>
       ELSE LET before == credits[t].current_balance
                absAmount == -amount
            IN IF amount > 0
                 THEN LET after == Tenant_addCredits(credits[t], amount)
                      IN /\ credits' = [credits EXCEPT ![t] = after]
                         /\ transactions' = createTransaction(t, "adjustment", amount, before,
                                                              after.current_balance, "manual")
                         /\ resp' = Resp("adjust", "ok")
                 ELSE IF credits[t].current_balance >= absAmount
                   THEN LET after == [credits[t] EXCEPT !.current_balance = @ - absAmount]
                        IN /\ credits' = [credits EXCEPT ![t] = after]
                           /\ transactions' = createTransaction(t, "adjustment", amount, before,
                                                                after.current_balance, "manual")
                           /\ resp' = Resp("adjust", "ok")
                   ELSE /\ resp' = Resp("adjust", "insufficient_credits")
                        /\ UNCHANGED <<credits, transactions>>
  /\ UNCHANGED <<customers, notifications, logs, runs, tracked>>

\* a job that takes every tenant, whatever its status
ActiveTenants_any == TenantIds

\* CreditService.resetMonthlyCredits (the monthly job): every active tenant
ActiveTenants == {t \in TenantIds : TenantStatus[t] = "active"}

RECURSIVE ResetTransactions(_, _)
ResetTransactions(todo, txns) ==
  IF todo = {} THEN txns
  ELSE LET t == CHOOSE x \in todo : TRUE
           after == Tenant_resetMonthlyCredits(credits[t])
       IN ResetTransactions(todo \ {t},
            Append(txns, [tenant_id |-> t, type |-> "reset",
                          amount |-> after.monthly_limit,
                          balance_before |-> credits[t].current_balance,
                          balance_after |-> after.current_balance,
                          reference_id |-> "automatic"]))

\* the aggregate counts the job reports
ResetReport(total, successful, failed) ==
  "reset " \o ToString(total) \o " " \o ToString(successful) \o " " \o ToString(failed)

\* one run of the job; for the tenants of failSave the save of the reset is rejected, for
\* those of failTxn the reset is saved and the write of its transaction is rejected
resetMonthlyCredits_run(failSave, failTxn) ==
  /\ TxnRoom
  /\ \A t \in ActiveTenants :
       Tenant_resetMonthlyCredits(credits[t]).current_balance <= MaxBalance
  /\ LET saved    == ActiveTenants \ failSave
         recorded == saved \ failTxn
     IN /\ credits' = [t \in TenantIds |->
                         IF t \in saved THEN Tenant_resetMonthlyCredits(credits[t])
                                        ELSE credits[t]]
        /\ transactions' = ResetTransactions(recorded, transactions)
        /\ resp' = Resp("reset", ResetReport(Count(ActiveTenants), Count(recorded),
                                             Count(ActiveTenants) - Count(recorded)))
  /\ UNCHANGED <<customers, notifications, logs, runs, tracked>>

\* the job when every write succeeds
CreditService_resetMonthlyCredits == resetMonthlyCredits_run({}, {})

\* ---------------------------------------------------------------- customers
\* customerSchema.methods.unsubscribe
Customer_unsubscribe(cu, reason) ==
  [cu EXCEPT !.opt_in_status = "unsubscribed", !.unsubscribe_reason = reason]

\* customerSchema.methods.activateOptIn
activateOptIn(cu) == [cu EXCEPT !.opt_in_status = "active"]

\* optInController.unsubscribe (public link)
unsubscribe(c) ==
  /\ IF customers[c].opt_in_status = "unsubscribed"
       THEN /\ resp' = Resp("unsubscribe", "ok")
            /\ UNCHANGED customers
       ELSE /\ customers' = [customers EXCEPT
                               ![c] = Customer_unsubscribe(@, "User requested unsubscription")]
            /\ resp' = Resp("unsubscribe", "ok")
  /\ UNCHANGED <<credits, notifications, logs, transactions, runs, tracked>>

\* optInController.submitOptIn for a customer that already exists
submitOptIn(c) ==
  /\ IF customers[c].opt_in_status = "active"
       THEN /\ resp' = Resp("optin", "ok")
            /\ UNCHANGED customers
       ELSE /\ customers' = [customers EXCEPT ![c] = activateOptIn(@)]
            /\ resp' = Resp("optin", "ok")
  /\ UNCHANGED <<credits, notifications, logs, transactions, runs, tracked>>

\* ---------------------------------------------------------------- notifications
\* the customers of a tenant whatever their opt-in status
ActiveOf_anyStatus(t) == {c \in CustomerIds : CustomerTenant[c] = t}

ActiveOf(t) == {c \in CustomerIds : CustomerTenant[c] = t /\ customers[c].opt_in_status = "active"}

\* notificationController.createNotification: the count query
CreateCount(t, tg) ==
  IF tg.customer_ids # {} THEN Count(ActiveOf(t) \cap tg.customer_ids)
  ELSE IF tg.tags # {} THEN Count({c \in ActiveOf(t) : CustomerTags[c] \cap tg.tags # {}})
  ELSE Count(ActiveOf(t))

createNotification(n, t, tg, scheduled) ==
  /\ notifications[n].status = "none"
  /\ LET targetedCount == CreateCount(t, tg)
     IN IF targetedCount = 0
          THEN /\ resp' = Resp("create", "bad_request")
               /\ UNCHANGED notifications
          ELSE IF ~hasCredits(credits[t], targetedCount)
            THEN /\ resp' = Resp("create", "insufficient_credits")
                 /\ UNCHANGED notifications
            ELSE /\ notifications' = [notifications EXCEPT ![n] =
                      [tenant_id |-> t,
                       status |-> IF scheduled THEN "pending" ELSE "draft",
                       targeting |-> tg,
                       stats |-> [ZeroStats EXCEPT !.total_targeted = targetedCount],
                       error_message |-> ""]]
                 /\ resp' = Resp("create", "ok")
  /\ UNCHANGED <<credits, customers, logs, transactions, runs, tracked>>

\* notificationSchema.methods.markAsFailed / markAsSent / updateStats, on a loaded document
\* markAsFailed dropping the reason
Notification_markAsFailed_noReason(doc, errorMessage) ==
  [doc EXCEPT !.status = "failed"]

Notification_markAsFailed(doc, errorMessage) ==
  [doc EXCEPT !.status = "failed", !.error_message = errorMessage]

\* a markAsSent that leaves the status as it is
Notification_markAsSent_keepStatus(doc) == doc

Notification_markAsSent(doc) == [doc EXCEPT !.status = "sent"]

\* updateStats losing the credits_consumed update
updateStats_withoutConsumed(doc, updates) ==
  [doc EXCEPT !.stats = [k \in DOMAIN doc.stats |->
                           IF k \in DOMAIN updates \ {"credits_consumed"}
                             THEN updates[k] ELSE doc.stats[k]]]

updateStats(doc, updates) ==
  [doc EXCEPT !.stats = [k \in DOMAIN doc.stats |->
                           IF k \in DOMAIN updates THEN updates[k] ELSE doc.stats[k]]]

\* document.save(): write the modified paths of a notification document
SaveNotification(stored, loaded, doc) ==
  [stored EXCEPT
     !.status = SavePath(stored.status, loaded.status, doc.status),
     !.error_message = SavePath(stored.error_message, loaded.error_message, doc.error_message),
     !.stats = [k \in DOMAIN stored.stats |->
                  SavePath(stored.stats[k], loaded.stats[k], doc.stats[k])]]

\* document.save() of a tenant document: the credit paths a run touches
SaveTenant(stored, loaded, doc) ==
  [stored EXCEPT
     !.current_balance = SavePath(stored.current_balance, loaded.current_balance,
                                  doc.current_balance),
     !.used_this_month = SavePath(stored.used_this_month, loaded.used_this_month,
                                  doc.used_this_month)]

\* a request is served with the lowest idle run slot
FreeSlot(r) == runs[r].pc = "idle" /\ \A q \in RunIds : q < r => runs[q].pc # "idle"

\* a send guard that refuses only what was sent
Sendable_unlessSent(status) == status # "sent"

\* the statuses from which a send request is accepted
Sendable(status) == status \in {"draft", "pending"}

\* a retry guard that also takes cancelled notifications
Retryable_orCancelled(status) == status \in {"failed", "cancelled"}

\* the status from which a retry is accepted
Retryable(status) == status = "failed"

\* a cancel guard that also takes drafts
Cancellable_orDraft(status) == status \in {"pending", "draft"}

\* the status from which a cancel is accepted
Cancellable(status) == status = "pending"

\* notificationController.sendNotification: accept or refuse the request
SendRequest(r, n) ==
  /\ FreeSlot(r)
  /\ TxnRoom
  /\ LET nt == notifications[n]
     IN IF nt.status = "none"
          THEN /\ resp' = Resp("send", "not_found")
               /\ UNCHANGED runs
          ELSE IF ~Sendable(nt.status)
            THEN /\ resp' = Resp("send", "invalid_state")
                 /\ UNCHANGED runs
            ELSE IF ~hasCredits(credits[nt.tenant_id], nt.stats.total_targeted)
              THEN /\ resp' = Resp("send", "insufficient_credits")
                   /\ UNCHANGED runs
              ELSE /\ runs' = [runs EXCEPT ![r] = [IdleRun EXCEPT !.pc = "load", !.nid = n]]
                   /\ resp' = Resp("send", "ok")
  /\ UNCHANGED <<credits, customers, notifications, logs, transactions, tracked>>

\* notificationController.retryNotification
retryNotification(r, n) ==
  /\ FreeSlot(r)
  /\ TxnRoom
  /\ LET nt == notifications[n]
     IN IF nt.status = "none"
          THEN /\ resp' = Resp("retry", "not_found")
               /\ UNCHANGED <<runs, notifications>>
          ELSE IF ~Retryable(nt.status)
            THEN /\ resp' = Resp("retry", "invalid_state")
                 /\ UNCHANGED <<runs, notifications>>
            ELSE /\ notifications' = [notifications EXCEPT
                                        ![n].status = "pending", ![n].error_message = ""]
                 /\ runs' = [runs EXCEPT ![r] = [IdleRun EXCEPT !.pc = "load", !.nid = n]]
                 /\ resp' = Resp("retry", "ok")
  /\ UNCHANGED <<credits, customers, logs, transactions, tracked>>

\* notificationController.cancelNotification
cancelNotification(n) ==
  /\ LET nt == notifications[n]
     IN IF nt.status = "none"
          THEN /\ resp' = Resp("cancel", "not_found")
               /\ UNCHANGED notifications
          ELSE IF ~Cancellable(nt.status)
            THEN /\ resp' = Resp("cancel", "invalid_state")
                 /\ UNCHANGED notifications
            ELSE /\ notifications' = [notifications EXCEPT ![n].status = "cancelled"]
                 /\ resp' = Resp("cancel", "ok")
  /\ UNCHANGED <<credits, customers, logs, transactions, runs, tracked>>

\* ---------------------------------------------------------------- the send run
\* an audience query that looks at customer_ids before send_to_all
ResolveAudience_idsFirst(t, tg) ==
  IF tg.customer_ids # {} THEN ActiveOf(t) \cap tg.customer_ids
  ELSE IF tg.send_to_all THEN ActiveOf(t)
  ELSE IF tg.tags # {} THEN {c \in ActiveOf(t) : CustomerTags[c] \cap tg.tags # {}}
  ELSE {}

\* WebPushService.sendNotification: resolve the audience
ResolveAudience(t, tg) ==
  IF tg.send_to_all THEN ActiveOf(t)
  ELSE IF tg.customer_ids # {} THEN ActiveOf(t) \cap tg.customer_ids
  ELSE IF tg.tags # {} THEN {c \in ActiveOf(t) : CustomerTags[c] \cap tg.tags # {}}
  ELSE {}

EndRun(r, result) ==
  /\ runs' = [runs EXCEPT ![r] = IdleRun]
  /\ resp' = result

\* load notification, tenant and customers; the two gates; mark as sending
RunLoad(r) ==
  /\ runs[r].pc = "load"
  /\ LET n   == runs[r].nid
         nt  == notifications[n]
         t   == nt.tenant_id
         aud == ResolveAudience(t, nt.targeting)
     IN IF aud = {}
          THEN /\ notifications' = [notifications EXCEPT ![n] =
                     SaveNotification(@, nt, Notification_markAsFailed(nt, "No active customers found"))]
               /\ EndRun(r, "run_no_customers")
          ELSE IF ~hasCredits(credits[t], Count(aud))
            THEN /\ notifications' = [notifications EXCEPT ![n] =
                       SaveNotification(@, nt, Notification_markAsFailed(nt, "Insufficient credits"))]
                 /\ EndRun(r, "run_insufficient_credits")
            ELSE LET doc == [nt EXCEPT !.status = "sending", !.stats.total_targeted = Count(aud)]
                 IN /\ notifications' = [notifications EXCEPT ![n] = SaveNotification(@, nt, doc)]
                    /\ runs' = [runs EXCEPT ![r] =
                         [pc |-> "fanout", nid |-> n,
                          tdoc |-> [current_balance |-> credits[t].current_balance,
                                    used_this_month |-> credits[t].used_this_month],
                          ndoc |-> [status |-> doc.status, stats |-> doc.stats],
                          audience |-> aud,
                          att |-> [c \in CustomerIds |-> IF c \in aud THEN "todo" ELSE "none"],
                          logIdx |-> [c \in CustomerIds |-> 0]]]
                    /\ UNCHANGED resp
  /\ UNCHANGED <<credits, customers, logs, transactions, tracked>>

\* WebPushService.sendToCustomer, up to the push call: the pending log entry
sendToCustomer_begin(r, c) ==
  /\ runs[r].pc = "fanout"
  /\ runs[r].att[c] = "todo"
  /\ logs' = Append(logs, [notification_id |-> runs[r].nid, customer_id |-> c,
                           status |-> "pending"])
  /\ runs' = [runs EXCEPT ![r].att[c] = "pending", ![r].logIdx[c] = Len(logs) + 1]
  /\ UNCHANGED <<credits, customers, notifications, transactions, resp, tracked>>

\* taking only 410 as gone
IsGone_only410(outcome) == outcome = "gone410"

\* the status codes on which the subscription is taken as gone
IsGone(outcome) == outcome \in {"gone404", "gone410"}

\* WebPushService.sendToCustomer, from the push call on
sendToCustomer_settle(r, c, outcome) ==
  /\ runs[r].pc = "fanout"
  /\ runs[r].att[c] = "pending"
  /\ LET i == runs[r].logIdx[c]
     IN IF outcome = "ok"
          THEN /\ logs' = [logs EXCEPT ![i].status = "sent"]
               /\ UNCHANGED customers
          ELSE /\ logs' = [logs EXCEPT ![i].status = "failed"]
               /\ IF IsGone(outcome)
                    THEN customers' = [customers EXCEPT
                           ![c] = Customer_unsubscribe(@, "Subscription expired or invalid")]
                    ELSE UNCHANGED customers
  /\ runs' = [runs EXCEPT ![r].att[c] = outcome]
  /\ UNCHANGED <<credits, notifications, transactions, resp, tracked>>

\* a fan-out that stops waiting at the first failed attempt
Settled_failFast(r) ==
  \/ \A c \in runs[r].audience : runs[r].att[c] \in PushOutcomes
  \/ \E c \in runs[r].audience : runs[r].att[c] \in PushOutcomes \ {"ok"}

Settled(r)    == \A c \in runs[r].audience : runs[r].att[c] \in PushOutcomes
Successful(r) == Count({c \in runs[r].audience : runs[r].att[c] = "ok"})
Failed(r)     == Count({c \in runs[r].audience : runs[r].att[c] \in PushOutcomes \ {"ok"}})

\* charging every attempt, failed ones included
Charge_attempts(r) == Successful(r) + Failed(r)

\* the amount the run charges
Charge(r) == Successful(r)

\* after Promise.allSettled: consumeCredits on the loaded tenant, the transaction
RunConsume(r) ==
  /\ runs[r].pc = "fanout"
  /\ Settled(r)
  /\ LET n == runs[r].nid
         t == notifications[n].tenant_id
         loaded == runs[r].tdoc
         amount == Charge(r)
     IN IF ~hasCredits(loaded, amount)
          THEN /\ EndRun(r, "run_error")
               /\ UNCHANGED <<credits, transactions>>
          ELSE LET doc == consumeCredits(loaded, amount)
               IN /\ credits' = [credits EXCEPT ![t] = SaveTenant(@, loaded, doc)]
                  /\ transactions' = createTransaction(t, "consumption", -amount,
                                        doc.current_balance + amount, doc.current_balance, n)
                  /\ runs' = [runs EXCEPT ![r].pc = "finish", ![r].tdoc = doc]
                  /\ UNCHANGED resp
  /\ UNCHANGED <<customers, notifications, logs, tracked>>

\* Tenant.consumeCredits: the save of the tenant document is rejected by the store; the
\* exception reaches the catch of sendNotification, which logs it and throws it again
RunConsume_rejected(r) ==
  /\ runs[r].pc = "fanout"
  /\ Settled(r)
  /\ EndRun(r, "run_error")
  /\ UNCHANGED <<credits, customers, notifications, logs, transactions, tracked>>

\* updateStats and markAsSent on the loaded notification
RunFinish(r) ==
  /\ runs[r].pc = "finish"
  /\ LET n == runs[r].nid
         loaded == [notifications[n] EXCEPT !.status = runs[r].ndoc.status,
                                            !.stats = runs[r].ndoc.stats]
         doc == Notification_markAsSent(
                  updateStats(loaded,
                    [total_sent |-> Successful(r) + Failed(r),
                     total_delivered |-> Successful(r),
                     total_failed |-> Failed(r),
                     credits_consumed |-> Charge(r)]))
     IN notifications' = [notifications EXCEPT ![n] = SaveNotification(@, loaded, doc)]
  /\ EndRun(r, "run_sent")
  /\ UNCHANGED <<credits, customers, logs, transactions, tracked>>

\* ---------------------------------------------------------------- tracking callbacks
\* NotificationLog.findOne({notification_id, customer_id}): first match in insertion order, 0 if none
FindLog(n, c) ==
  LET hits == {i \in 1..Len(logs) : logs[i].notification_id = n /\ logs[i].customer_id = c}
  IN IF hits = {} THEN 0 ELSE CHOOSE i \in hits : \A j \in hits : i <= j

\* counting a delivered callback whatever the entry's status
DeliveredCounts_anyStatus(n, cid) ==
  IF cid = NoCustomer THEN TRUE
  ELSE FindLog(n, cid) # 0

\* counting a delivered callback only when it names a customer whose entry is sent
DeliveredCounts_onlyWithLog(n, cid) ==
  cid # NoCustomer /\ FindLog(n, cid) # 0 /\ logs[FindLog(n, cid)].status = "sent"

\* trackDelivered marks the entry and counts the callback
DeliveredCounts(n, cid) ==
  IF cid = NoCustomer THEN TRUE
  ELSE FindLog(n, cid) # 0 /\ logs[FindLog(n, cid)].status = "sent"

\* trackClicked marks the entry and counts the callback
ClickedCounts(n, cid) ==
  IF cid = NoCustomer THEN TRUE
  ELSE FindLog(n, cid) # 0 /\ logs[FindLog(n, cid)].status # "clicked"

Bump(kind, n, cid) ==
  IF cid = NoCustomer THEN tracked
  ELSE [tracked EXCEPT ![kind][n][cid] = @ + 1]

\* notificationController.trackDelivered (public)
trackDelivered(n, cid) ==
  /\ IF notifications[n].status = "none"
       THEN UNCHANGED <<notifications, logs, tracked>>
       ELSE IF DeliveredCounts(n, cid)
         THEN /\ notifications[n].stats.total_delivered < MaxStat
              /\ logs' = IF cid = NoCustomer THEN logs
                         ELSE [logs EXCEPT ![FindLog(n, cid)].status = "delivered"]
              /\ notifications' = [notifications EXCEPT ![n].stats.total_delivered = @ + 1]
              /\ tracked' = Bump("delivered", n, cid)
         ELSE UNCHANGED <<notifications, logs, tracked>>
  /\ resp' = Resp("trackDelivered", "ok")
  /\ UNCHANGED <<credits, customers, transactions, runs>>

\* notificationController.trackClicked (public)
trackClicked(n, cid) ==
  /\ IF notifications[n].status = "none"
       THEN UNCHANGED <<notifications, logs, tracked>>
       ELSE IF ClickedCounts(n, cid)
         THEN /\ notifications[n].stats.total_clicked < MaxStat
              /\ logs' = IF cid = NoCustomer THEN logs
                         ELSE [logs EXCEPT ![FindLog(n, cid)].status = "clicked"]
              /\ notifications' = [notifications EXCEPT ![n].stats.total_clicked = @ + 1]
              /\ tracked' = Bump("clicked", n, cid)
         ELSE UNCHANGED <<notifications, logs, tracked>>
  /\ resp' = Resp("trackClicked", "ok")
  /\ UNCHANGED <<credits, customers, transactions, runs>>

\* ---------------------------------------------------------------- specifications
Amounts == (-MaxAmount)..MaxAmount

\* the admin credit endpoints and the monthly job
Ledger ==
  \/ \E t \in AdminTenants, a \in Amounts : CreditService_addCredits(t, a)
  \/ \E t \in AdminTenants, a \in Amounts, hasReason \in BOOLEAN : adjustCredits(t, a, hasReason)
  \/ CreditService_resetMonthlyCredits

\* authoring
Author ==
  \/ \E n \in NotifIds, t \in AuthorTenants, tg \in TargetingChoices, scheduled \in BOOLEAN :
       createNotification(n, t, tg, scheduled)
  \/ \E n \in NotifIds : cancelNotification(n)

\* requests that start a send run
Start ==
  \/ \E r \in RunIds, n \in NotifIds : SendRequest(r, n)
  \/ \E r \in RunIds, n \in NotifIds : retryNotification(r, n)

\* the steps of a run
Step ==
  \/ \E r \in RunIds : RunLoad(r)
  \/ \E r \in RunIds, c \in CustomerIds : sendToCustomer_begin(r, c)
  \/ \E r \in RunIds, c \in CustomerIds, o \in PushOutcomes : sendToCustomer_settle(r, c, o)
  \/ \E r \in RunIds : RunConsume(r)
  \/ \E r \in RunIds : RunFinish(r)

\* one request at a time: a request is served only when no run is in flight
Quiet == InFlight = {}

SerialLedger ==
  \/ \E t \in AdminTenants, a \in Amounts : Quiet /\ CreditService_addCredits(t, a)
  \/ \E t \in AdminTenants, a \in Amounts, hasReason \in BOOLEAN :
       Quiet /\ adjustCredits(t, a, hasReason)
  \/ Quiet /\ CreditService_resetMonthlyCredits

SerialAudience(who) ==
  \/ \E c \in who : Quiet /\ unsubscribe(c)
  \/ \E c \in who : Quiet /\ submitOptIn(c)

SerialAuthor ==
  \/ \E n \in NotifIds, t \in AuthorTenants, tg \in TargetingChoices, scheduled \in BOOLEAN :
       Quiet /\ createNotification(n, t, tg, scheduled)
  \/ \E n \in NotifIds : Quiet /\ cancelNotification(n)

SerialTrack ==
  \/ \E n \in NotifIds, cid \in CustomerIds \cup {NoCustomer} : Quiet /\ trackDelivered(n, cid)
  \/ \E n \in NotifIds, cid \in CustomerIds \cup {NoCustomer} : Quiet /\ trackClicked(n, cid)

SerialStart ==
  \/ \E r \in RunIds, n \in NotifIds : Quiet /\ SendRequest(r, n)
  \/ \E r \in RunIds, n \in NotifIds : Quiet /\ retryNotification(r, n)

\* the ledger with sends, one request at a time; one customer comes and goes
NextLedger ==
  SerialLedger \/ SerialAudience(LedgerCustomers) \/ SerialAuthor \/ SerialStart \/ Step
SpecLedger == Init /\ [][NextLedger]_vars

\* sends, opt-in changes and tracking callbacks, one request at a time
NextTrack == SerialAudience(PublicCustomers) \/ SerialAuthor \/ SerialTrack \/ SerialStart \/ Step
SpecTrack == Init /\ [][NextTrack]_vars

\* ledger requests arrive while runs are in flight
Next == Ledger \/ Author \/ Start \/ Step
Spec == Init /\ [][Next]_vars

\* every combination of the three targeting fields
AnyTargeting ==
  [send_to_all : BOOLEAN, customer_ids : {{}, {"c2"}, {"c1", "c3"}}, tags : {{}, {"vip"}}]

SerialAuthorAny ==
  \/ \E n \in NotifIds, t \in AuthorTenants, tg \in AnyTargeting, scheduled \in BOOLEAN :
       Quiet /\ createNotification(n, t, tg, scheduled)
  \/ \E n \in NotifIds : Quiet /\ cancelNotification(n)

\* sends of notifications with any targeting while customers come and go, one request at a time
NextAudience == SerialAudience(PublicCustomers) \/ SerialAuthorAny \/ SerialStart \/ Step
SpecAudience == Init /\ [][NextAudience]_vars

\* the monthly job with rejected writes, and admin credit requests for the active tenants
ResetJob ==
  \E failSave \in SUBSET ActiveTenants, failTxn \in SUBSET ActiveTenants :
    failSave \cap failTxn = {} /\ resetMonthlyCredits_run(failSave, failTxn)

AdminRequests ==
  \/ \E t \in ActiveTenants, a \in Amounts : CreditService_addCredits(t, a)
  \/ \E t \in ActiveTenants, a \in Amounts : adjustCredits(t, a, TRUE)

NextReset == ResetJob \/ AdminRequests
SpecReset == Init /\ [][NextReset]_vars

\* the steps of a run whose pushes succeed or fail without losing the subscription
StepPlain ==
  \/ \E r \in RunIds : RunLoad(r)
  \/ \E r \in RunIds, c \in CustomerIds : sendToCustomer_begin(r, c)
  \/ \E r \in RunIds, c \in CustomerIds, o \in {"ok", "transient"} :
       sendToCustomer_settle(r, c, o)
  \/ \E r \in RunIds : RunConsume(r)
  \/ \E r \in RunIds : RunFinish(r)

\* authoring requests arrive while runs are in flight; one customer comes and goes between
\* runs; no admin credit request
NextAuthor == Author \/ Start \/ StepPlain \/ SerialAudience(LedgerCustomers)
SpecAuthor == Init /\ [][NextAuthor]_vars

\* a customer leaves and comes back while sends of a send_to_all notification overlap;
\* the push service answers with success or 410
NextGone ==
  \/ \E n \in NotifIds, t \in AuthorTenants :
       createNotification(n, t, [send_to_all |-> TRUE, customer_ids |-> {}, tags |-> {}], FALSE)
  \/ unsubscribe("c1")
  \/ submitOptIn("c1")
  \/ Start
  \/ \E r \in RunIds : RunLoad(r)
  \/ \E r \in RunIds, c \in CustomerIds : sendToCustomer_begin(r, c)
  \/ \E r \in RunIds, c \in CustomerIds, o \in {"ok", "gone410"} : sendToCustomer_settle(r, c, o)
  \/ \E r \in RunIds : RunConsume(r)
  \/ \E r \in RunIds : RunFinish(r)
SpecGone == Init /\ [][NextGone]_vars

\* overlapping sends and retries of a send_to_all notification; every step of a run that can be taken is taken
\* in the end: the event loop resumes each awaited call once it has settled, and every
\* push call returns or throws
NextLive ==
  \/ \E n \in NotifIds, t \in AuthorTenants :
       createNotification(n, t, [send_to_all |-> TRUE, customer_ids |-> {}, tags |-> {}], FALSE)
  \/ Start
  \/ Step
RunStep(r) ==
  \/ RunLoad(r)
  \/ \E c \in CustomerIds : sendToCustomer_begin(r, c)
  \/ \E c \in CustomerIds, o \in PushOutcomes : sendToCustomer_settle(r, c, o)
  \/ RunConsume(r)
  \/ RunFinish(r)
RunFairness == \A r \in RunIds : WF_vars(RunStep(r))
InitLive ==
  /\ Init
  /\ credits["t1"].monthly_limit = 2
  /\ ~credits["t1"].rollover_enabled
SpecLive == InitLive /\ [][NextLive]_vars /\ RunFairness

\* sends, one request at a time, with a store that may reject the save of the tenant
NextFault ==
  \/ SerialAuthor \/ SerialStart \/ StepPlain
  \/ \E r \in RunIds : RunConsume_rejected(r)
SpecFault == Init /\ [][NextFault]_vars

\* ---------------------------------------------------------------- properties
RunTenant(r) == notifications[runs[r].nid].tenant_id

\* the transactions a step appends for tenant t
Appended(t) ==
  {i \in (Len(transactions) + 1)..Len(transactions') : transactions'[i].tenant_id = t}

\* a step that ends the load phase of run r, and the audience it resolved
LoadStep(r) == runs[r].pc = "load" /\ runs'[r].pc # "load"
LoadAudience(r) == ResolveAudience(RunTenant(r), notifications[runs[r].nid].targeting)

\* a step that consumes for run r: the fan-out has settled and the run leaves it
ConsumeStep(r) == runs[r].pc = "fanout" /\ runs'[r].pc # "fanout"

\* a step that settles the attempt of customer c in run r
SettleStep(r, c) == runs[r].att[c] = "pending" /\ runs'[r].att[c] \in PushOutcomes

Rejections == {"bad_request", "insufficient_credits",
               "send_invalid_state", "send_not_found", "send_insufficient_credits",
               "retry_invalid_state", "retry_not_found",
               "cancel_invalid_state", "cancel_not_found",
               "run_no_customers", "run_insufficient_credits", "run_error"}

\* C1: current_balance is never negative, and a consume or a negative adjust whose
\* amount exceeds the stored current_balance ends in an insufficient-credits error
\* and leaves the credit fields unchanged (stated here as the claim; the code's consume
\* tests the balance the run loaded before the fan-out).
C1_OverdrawRejected ==
  [][ /\ \A t \in TenantIds : credits'[t].current_balance >= 0
      /\ \A r \in RunIds :
           (ConsumeStep(r) /\ Successful(r) > credits[RunTenant(r)].current_balance)
             => (resp' = "run_error" /\ credits' = credits)
      /\ \A t \in AdminTenants, a \in Amounts :
           (a < 0 /\ -a > credits[t].current_balance /\ adjustCredits(t, a, TRUE))
             => (resp' = "insufficient_credits" /\ credits' = credits)
    ]_vars

\* the part of C1 the code keeps under every interleaving: no negative balance
BalanceNonNegative == \A t \in TenantIds : credits[t].current_balance >= 0

\* C2 as stated: a step that changes a tenant's balance appends exactly one transaction
\* for it, with balance_before / balance_after the balance before / after the step, and a
\* step that changes no balance appends none.
C2_ExactlyOneOrNone ==
  [][ \A t \in TenantIds :
        IF credits'[t].current_balance # credits[t].current_balance
          THEN /\ Cardinality(Appended(t)) = 1
               /\ \A i \in Appended(t) :
                    /\ transactions'[i].balance_before = credits[t].current_balance
                    /\ transactions'[i].balance_after = credits'[t].current_balance
          ELSE Appended(t) = {}
    ]_vars

\* C2 amended: a step that changes a tenant's balance appends exactly one transaction for
\* it; every appended transaction carries the balance before and after its step, also when
\* the two are equal (a send with no success, a reset that restores the same balance); a
\* rejected request and a send stopped at a gate append none and change no balance.
C2_TransactionPerOperation ==
  [][ /\ \A t \in TenantIds :
           /\ credits'[t].current_balance # credits[t].current_balance
                => Cardinality(Appended(t)) = 1
           /\ Cardinality(Appended(t)) <= 1
           /\ \A i \in Appended(t) :
                /\ transactions'[i].balance_before = credits[t].current_balance
                /\ transactions'[i].balance_after = credits'[t].current_balance
      /\ (resp' \in Rejections /\ resp' # resp)
           => (transactions' = transactions /\ credits' = credits)
      /\ \A i \in 1..Len(transactions) :
           Len(transactions') >= i /\ transactions'[i] = transactions[i]
    ]_vars

\* C2 witness: a send without any success left a zero-amount consumption transaction
C2_Witness ==
  \E i \in 1..Len(transactions) :
    /\ transactions[i].type = "consumption"
    /\ transactions[i].amount = 0
    /\ \E j \in 1..Len(transactions) : transactions[j].amount # 0

\* C3: the consume of a run with s successes and f failures lowers current_balance by
\* exactly s and raises used_this_month by exactly s.
C3_OnlySuccessesConsume ==
  [][ \A r \in RunIds :
        ConsumeStep(r) =>
          LET t == RunTenant(r)
          IN /\ credits'[t].current_balance = credits[t].current_balance - Successful(r)
             /\ credits'[t].used_this_month = credits[t].used_this_month + Successful(r)
             /\ credits'[t].monthly_limit = credits[t].monthly_limit
             /\ credits'[t].rollover_balance = credits[t].rollover_balance
    ]_vars

\* C3 witness: a run has consumed after a fan-out with a success and a failure
C3_Witness ==
  \E r \in RunIds : runs[r].pc = "finish" /\ Successful(r) >= 1 /\ Failed(r) >= 1

RunResults == {"run_sent", "run_no_customers", "run_insufficient_credits", "run_error"}

C6_CreditGate ==
  [][ \A r \in RunIds :
        (/\ LoadStep(r)
         /\ LoadAudience(r) # {}
         /\ credits[RunTenant(r)].current_balance < Cardinality(LoadAudience(r)))
        => /\ notifications'[runs[r].nid].status = "failed"
           /\ notifications'[runs[r].nid].error_message = "Insufficient credits"
           /\ runs'[r].pc = "idle"
           /\ UNCHANGED <<credits, customers, logs, transactions>>
    ]_vars

\* C6 witness: a run ended at the credit gate
C6_Witness ==
  /\ resp = "run_insufficient_credits"
  /\ \E n \in NotifIds : notifications[n].error_message = "Insufficient credits"

\* C7: a run whose audience resolves to no customer ends there: the notification is failed
\* with "No active customers found", whatever the balance, and credits, customers, log
\* entries and transactions are unchanged.
C7_EmptyAudience ==
  [][ \A r \in RunIds :
        (LoadStep(r) /\ LoadAudience(r) = {})
        => /\ notifications'[runs[r].nid].status = "failed"
           /\ notifications'[runs[r].nid].error_message = "No active customers found"
           /\ runs'[r].pc = "idle"
           /\ UNCHANGED <<credits, customers, logs, transactions>>
    ]_vars

\* C7 witness: a run ended on an empty audience and left no log entry and no transaction
C7_Witness ==
  /\ resp = "run_no_customers"
  /\ \E n \in NotifIds :
       /\ notifications[n].status = "failed"
       /\ notifications[n].error_message = "No active customers found"
  /\ logs = <<>>
  /\ transactions = <<>>

\* C8: the step that settles a customer's attempt unsubscribes that customer, with reason
\* "Subscription expired or invalid", exactly when the attempt failed with 404 or 410; any
\* other failure and a success leave the customer as it was, active; no other customer
\* changes in that step, and no other step of a run changes a customer.
C8_UnsubscribeIffGone ==
  [][ /\ \A r \in RunIds, c \in CustomerIds :
           SettleStep(r, c) =>
             /\ customers[c].opt_in_status = "active"
             /\ IF runs'[r].att[c] \in {"gone404", "gone410"}
                  THEN /\ customers'[c].opt_in_status = "unsubscribed"
                       /\ customers'[c].unsubscribe_reason = "Subscription expired or invalid"
                  ELSE customers'[c] = customers[c]
             /\ \A d \in CustomerIds \ {c} : customers'[d] = customers[d]
      /\ (InFlight # {} /\ customers' # customers) =>
           \E r \in RunIds, c \in CustomerIds : SettleStep(r, c)
    ]_vars

\* C8 witness: one fan-out with a 404, a 410 or another failure, where the gone customer is
\* unsubscribed and the other one is still active
C8_Witness ==
  \E r \in RunIds :
    /\ runs[r].pc = "finish"
    /\ \E c, d \in runs[r].audience :
         /\ runs[r].att[c] \in {"gone404", "gone410"}
         /\ customers[c].opt_in_status = "unsubscribed"
         /\ runs[r].att[d] = "transient"
         /\ customers[d].opt_in_status = "active"

\* C9: for every notification and customer, the trackDelivered callbacks carrying that
\* customer have raised total_delivered at most once in total, and the trackClicked
\* callbacks carrying it have raised total_clicked at most once in total.
C9_TrackingIdempotent ==
  \A n \in NotifIds, c \in CustomerIds :
    /\ tracked["delivered"][n][c] <= 1
    /\ tracked["clicked"][n][c] <= 1

\* C9 witness: a customer's entry was counted as delivered and as clicked, and both
\* counters still have room for a repeated callback to count
C9_Witness ==
  \E n \in NotifIds, c \in CustomerIds :
    /\ tracked["delivered"][n][c] = 1
    /\ tracked["clicked"][n][c] = 1
    /\ notifications[n].stats.total_delivered < MaxStat
    /\ notifications[n].stats.total_clicked < MaxStat

\* C10: the monthly reset, for every active tenant with limit L and balance B: with
\* rollover, rollover_balance becomes B and current_balance L + B; without, current_balance
\* becomes L and rollover_balance 0; used_this_month becomes 0; monthly_limit and
\* rollover_enabled stay.
C10_ResetPostcondition ==
  [][ CreditService_resetMonthlyCredits =>
        \A t \in ActiveTenants :
          LET L == credits[t].monthly_limit
              B == credits[t].current_balance
          IN /\ IF credits[t].rollover_enabled
                  THEN /\ credits'[t].rollover_balance = B
                       /\ credits'[t].current_balance = L + B
                  ELSE /\ credits'[t].current_balance = L
                       /\ credits'[t].rollover_balance = 0
             /\ credits'[t].used_this_month = 0
             /\ credits'[t].monthly_limit = L
             /\ credits'[t].rollover_enabled = credits[t].rollover_enabled
    ]_vars

\* C10 witness: a reset with rollover carried a positive balance over after some use
C10_Witness ==
  /\ Len(transactions) >= 1
  /\ transactions[Len(transactions)].type = "reset"
  /\ \E t \in ActiveTenants :
       /\ credits[t].rollover_enabled
       /\ credits[t].rollover_balance >= 1
       /\ credits[t].used_this_month = 0
       /\ \E i \in 1..Len(transactions) : transactions[i].type = "consumption"

\* ---------------------------------------------------------------- concurrency
TxnsOf(t) == {i \in 1..Len(transactions) : transactions[i].tenant_id = t}

\* the sum of the amounts of a tenant's transactions among the first i
RECURSIVE LedgerSum(_, _)
LedgerSum(t, i) ==
  IF i = 0 THEN 0
  ELSE LedgerSum(t, i - 1) +
       (IF transactions[i].tenant_id = t THEN transactions[i].amount ELSE 0)

\* the credits a tenant's consumption transactions took, among the first i
RECURSIVE ConsumedSum(_, _)
ConsumedSum(t, i) ==
  IF i = 0 THEN 0
  ELSE ConsumedSum(t, i - 1) +
       (IF transactions[i].tenant_id = t /\ transactions[i].type = "consumption"
          THEN -transactions[i].amount ELSE 0)

\* the balance a tenant had before its first transaction
FirstBefore(t) == transactions[CHOOSE i \in TxnsOf(t) : \A j \in TxnsOf(t) : i <= j].balance_before

\* C11: once no run is in flight, a tenant whose accepted ledger operations were consumes,
\* adds and adjusts (no reset) has the balance every sequential execution of them gives,
\* the balance before the first plus the sum of their amounts, and used_this_month is the
\* sum of the consumed amounts: no update is lost, none is applied to an overdrawn balance.
C11_SerializableLedger ==
  \A t \in TenantIds :
    (/\ InFlight = {}
     /\ TxnsOf(t) # {}
     /\ \A i \in TxnsOf(t) : transactions[i].type # "reset")
    => /\ credits[t].current_balance = FirstBefore(t) + LedgerSum(t, Len(transactions))
       /\ credits[t].used_this_month = ConsumedSum(t, Len(transactions))

\* the log entries of a notification for a customer, the consumption transactions of a notification
AttemptsOf(n, c) ==
  {i \in 1..Len(logs) : logs[i].notification_id = n /\ logs[i].customer_id = c}
ConsumptionsOf(n) ==
  {i \in 1..Len(transactions) :
     transactions[i].type = "consumption" /\ transactions[i].reference_id = n}

\* C12: whatever the interleaving of the send requests for a notification, each customer has
\* at most one delivery attempt for it and at most one consumption transaction refers to it.
C12_SingleFanOut ==
  \A n \in NotifIds :
    /\ \A c \in CustomerIds : Cardinality(AttemptsOf(n, c)) <= 1
    /\ Cardinality(ConsumptionsOf(n)) <= 1

\* ---------------------------------------------------------------- authoring guards
\* C13: a send request for a notification that is neither draft nor pending is refused, as
\* not found when there is no such notification and as an invalid state otherwise, and
\* changes nothing: notifications, credits, transactions, log entries, customers and runs
\* are as before.
C13_SendStateGuard ==
  [][ \A r \in RunIds, n \in NotifIds :
        (SendRequest(r, n) /\ notifications[n].status \notin {"draft", "pending"})
        => /\ resp' = (IF notifications[n].status = "none" THEN "send_not_found"
                       ELSE "send_invalid_state")
           /\ UNCHANGED <<credits, customers, notifications, logs, transactions, runs, tracked>>
    ]_vars

\* C13 witness: a send request was refused while a run of the notification is in flight
C13_Witness ==
  /\ resp = "send_invalid_state"
  /\ \E r \in RunIds : runs[r].pc = "fanout" /\ notifications[runs[r].nid].status = "sending"

\* C14: a retry of a failed notification is accepted: status becomes pending, error_message
\* is cleared, nothing else of the notification changes, and a run of sendNotification starts
\* at its beginning; a retry from any other status is refused and changes nothing. The run
\* it starts resolves the audience and applies the gates on the state it finds.
C14_RetryOnlyFailed ==
  [][ /\ \A r \in RunIds, n \in NotifIds :
           retryNotification(r, n) =>
             IF notifications[n].status = "failed"
               THEN /\ resp' = "retry_ok"
                    /\ notifications' = [notifications EXCEPT ![n].status = "pending",
                                                             ![n].error_message = ""]
                    /\ runs'[r].pc = "load" /\ runs'[r].nid = n
                    /\ \A q \in RunIds \ {r} : runs'[q] = runs[q]
                    /\ UNCHANGED <<credits, customers, logs, transactions, tracked>>
               ELSE /\ resp' = (IF notifications[n].status = "none" THEN "retry_not_found"
                                ELSE "retry_invalid_state")
                    /\ UNCHANGED <<credits, customers, notifications, logs, transactions,
                                   runs, tracked>>
      /\ \A r \in RunIds :
           LoadStep(r) =>
             LET aud == LoadAudience(r)
                 enough == credits[RunTenant(r)].current_balance >= Cardinality(aud)
             IN IF aud # {} /\ enough
                  THEN runs'[r].pc = "fanout" /\ runs'[r].audience = aud
                  ELSE runs'[r].pc = "idle" /\ notifications'[runs[r].nid].status = "failed"
    ]_vars

\* C14 witness: the run started by an accepted retry has passed both gates
C14_Witness ==
  /\ resp = "retry_ok"
  /\ \E r \in RunIds :
       /\ runs[r].pc = "fanout"
       /\ notifications[runs[r].nid].status = "sending"
       /\ notifications[runs[r].nid].error_message = ""

\* C15: a cancel of a pending notification is accepted and sets its status to cancelled,
\* leaving its stats and every other field, credits, transactions, log entries, customers
\* and runs as they were; a cancel from any other status is refused and changes nothing.
C15_CancelOnlyPending ==
  [][ \A n \in NotifIds :
        cancelNotification(n) =>
          /\ IF notifications[n].status = "pending"
               THEN /\ resp' = "cancel_ok"
                    /\ notifications' = [notifications EXCEPT ![n].status = "cancelled"]
               ELSE /\ resp' = (IF notifications[n].status = "none" THEN "cancel_not_found"
                                ELSE "cancel_invalid_state")
                    /\ UNCHANGED notifications
          /\ UNCHANGED <<credits, customers, logs, transactions, runs, tracked>>
    ]_vars

\* C15 witness: a pending notification was cancelled
C15_Witness ==
  /\ resp = "cancel_ok"
  /\ \E n \in NotifIds : notifications[n].status = "cancelled"

\* ---------------------------------------------------------------- monthly reset job
ActiveByStatus == {t \in TenantIds : TenantStatus[t] = "active"}
ResetDone(t) == \E i \in Appended(t) : transactions'[i].type = "reset"

Selected(tg, c) ==
  \/ tg.send_to_all
  \/ ~tg.send_to_all /\ tg.customer_ids # {} /\ c \in tg.customer_ids
  \/ ~tg.send_to_all /\ tg.customer_ids = {} /\ tg.tags # {} /\ CustomerTags[c] \cap tg.tags # {}

\* C17: the audience of a run that passes the gates is the set of customers of the
\* notification's tenant that are active when it is resolved and selected by the targeting in
\* the priority send_to_all, customer_ids, tags; the customers attempted by the run are those
\* of that audience and no others.
C17_AudienceResolution ==
  [][ /\ \A r \in RunIds :
           (LoadStep(r) /\ runs'[r].pc = "fanout") =>
             runs'[r].audience =
               {c \in CustomerIds :
                  /\ CustomerTenant[c] = notifications[runs[r].nid].tenant_id
                  /\ customers[c].opt_in_status = "active"
                  /\ Selected(notifications[runs[r].nid].targeting, c)}
      /\ \A r \in RunIds :
           (LoadStep(r) /\ runs'[r].pc = "idle") =>
             {c \in CustomerIds :
                /\ CustomerTenant[c] = notifications[runs[r].nid].tenant_id
                /\ customers[c].opt_in_status = "active"
                /\ Selected(notifications[runs[r].nid].targeting, c)} = {}
             \/ notifications'[runs[r].nid].error_message = "Insufficient credits"
      /\ \A r \in RunIds, c \in CustomerIds :
           (runs[r].att[c] # "pending" /\ runs'[r].att[c] = "pending") => c \in runs[r].audience
      /\ Len(logs') > Len(logs) =>
           \E r \in RunIds :
             /\ logs'[Len(logs')].customer_id \in runs[r].audience
             /\ logs'[Len(logs')].notification_id = runs[r].nid
    ]_vars

\* C17 witness: send_to_all won over a customer_ids list naming somebody else; the fan-out
\* took both active customers of the tenant and not the foreign customer of the list
C17_Witness ==
  \E r \in RunIds :
    /\ runs[r].pc = "finish"
    /\ notifications[runs[r].nid].targeting.send_to_all
    /\ notifications[runs[r].nid].targeting.customer_ids = {"c1", "c3"}
    /\ runs[r].audience = {"c1", "c2"}

\* ---------------------------------------------------------------- status edges
\* C18: once a notification exists, its status changes only along draft->sending,
\* pending->sending, sending->sent, sending->failed, pending->cancelled and failed->pending.
C18_StatusEdges ==
  [][\A n \in NotifIds :
       (notifications[n].status # "none" /\ notifications'[n].status # notifications[n].status)
         => <<notifications[n].status, notifications'[n].status>> \in
              {<<"draft", "sending">>, <<"pending", "sending">>, <<"sending", "sent">>,
               <<"sending", "failed">>, <<"pending", "cancelled">>, <<"failed", "pending">>}]_vars

\* ---------------------------------------------------------------- failed consume
\* C19: when the consume call that ends a fan-out fails, the notification does not stay in
\* status sending and carries the counters of the fan-out: total_sent is the number of
\* attempts, total_delivered the successes, total_failed the failures.
C19_ConsumeFailure ==
  [][\A r \in RunIds :
       (ConsumeStep(r) /\ runs'[r].pc # "finish") =>
         LET nt == notifications'[runs[r].nid]
             ok == Count({c \in runs[r].audience : runs[r].att[c] = "ok"})
         IN /\ nt.status # "sending"
            /\ nt.stats.total_sent = Count(runs[r].audience)
            /\ nt.stats.total_delivered = ok
            /\ nt.stats.total_failed = Count(runs[r].audience) - ok]_vars

\* ---------------------------------------------------------------- stats of a sent run
\* C20: the step that ends a run marks the notification sent with total_targeted =
\* |audience| = total_sent = total_delivered + total_failed, total_delivered the number of
\* successful attempts, total_failed the number of failed ones and credits_consumed =
\* total_delivered; a notification becomes sent only by such a step; total_targeted is
\* written by the step that marks the notification sending, before any attempt has begun.
C20_SentStats ==
  [][ /\ \A r \in RunIds :
           (runs[r].pc = "finish" /\ runs'[r].pc # "finish") =>
             LET st  == notifications'[runs[r].nid].stats
                 aud == runs[r].audience
                 ok  == Count({c \in aud : runs[r].att[c] = "ok"})
                 ko  == Count({c \in aud : runs[r].att[c] \in {"gone404", "gone410", "transient"}})
             IN /\ notifications'[runs[r].nid].status = "sent"
                /\ st.total_targeted = Count(aud)
                /\ st.total_sent = Count(aud)
                /\ st.total_sent = st.total_delivered + st.total_failed
                /\ st.total_delivered = ok
                /\ st.total_failed = ko
                /\ st.credits_consumed = st.total_delivered
      /\ \A n \in NotifIds :
           (notifications[n].status # "sent" /\ notifications'[n].status = "sent") =>
             \E r \in RunIds : runs[r].pc = "finish" /\ runs'[r].pc # "finish" /\ runs[r].nid = n
      /\ \A r \in RunIds :
           (LoadStep(r) /\ runs'[r].pc = "fanout") =>
             /\ notifications'[runs[r].nid].status = "sending"
             /\ notifications'[runs[r].nid].stats.total_targeted = Count(runs'[r].audience)
             /\ \A c \in CustomerIds : runs'[r].att[c] \in {"none", "todo"}
             /\ logs' = logs
    ]_vars

\* ---------------------------------------------------------------- delivery log entries
\* C21: when the push call of an attempt returns or throws, the entry of that attempt exists
\* with status pending; the step leaves it sent if the call returned and failed if it threw;
\* and no entry of a notification in status sent is pending.
C21_LogLifecycle ==
  [][ /\ \A r \in RunIds, c \in CustomerIds :
           SettleStep(r, c) =>
             LET i == runs[r].logIdx[c]
             IN /\ i \in 1..Len(logs)
                /\ logs[i].notification_id = runs[r].nid
                /\ logs[i].customer_id = c
                /\ logs[i].status = "pending"
                /\ logs'[i].status = IF runs'[r].att[c] = "ok" THEN "sent" ELSE "failed"
      /\ \A i \in 1..Len(logs') :
           notifications'[logs'[i].notification_id].status = "sent" => logs'[i].status # "pending"
    ]_vars

\* C22: the status of a Delivery Log entry changes only along pending->sent, pending->failed,
\* sent->delivered, sent->clicked and delivered->clicked; an entry in pending or failed is
\* changed only by the send path, never by a step that leaves every run where it was.
C22_LogEdges ==
  [][\A i \in 1..Len(logs) :
       logs'[i].status # logs[i].status =>
         /\ <<logs[i].status, logs'[i].status>> \in
              {<<"pending", "sent">>, <<"pending", "failed">>, <<"sent", "delivered">>,
               <<"sent", "clicked">>, <<"delivered", "clicked">>}
         /\ logs[i].status \in {"pending", "failed"} => runs' # runs]_vars

\* ---------------------------------------------------------------- tracking fallback
\* no Delivery Log entry for notification n and the customer named by the callback
NoEntry(n, cid) ==
  \A i \in 1..Len(logs) : ~(logs[i].notification_id = n /\ logs[i].customer_id = cid)

\* C23 as stated: a tracking callback for an existing notification without a matching entry
\* raises the aggregate counter by 1 and leaves the log alone.
C23_FallbackAlways ==
  [][\A n \in NotifIds, cid \in CustomerIds \cup {NoCustomer} :
       (notifications[n].status # "none" /\ NoEntry(n, cid)) =>
         /\ trackDelivered(n, cid) =>
              /\ notifications'[n].stats.total_delivered = notifications[n].stats.total_delivered + 1
              /\ logs' = logs
         /\ trackClicked(n, cid) =>
              /\ notifications'[n].stats.total_clicked = notifications[n].stats.total_clicked + 1
              /\ logs' = logs]_vars

\* C23 amended: a tracking callback for an existing notification that names no customer
\* raises the aggregate counter by 1; one that names a customer without an entry for the
\* notification leaves the counters as they were; neither creates or changes a log entry.
C23_FallbackWithoutCustomer ==
  [][\A n \in NotifIds, cid \in CustomerIds \cup {NoCustomer} :
       (notifications[n].status # "none" /\ NoEntry(n, cid)) =>
         LET by == IF cid = NoCustomer THEN 1 ELSE 0
         IN /\ trackDelivered(n, cid) =>
                 /\ notifications'[n].stats.total_delivered =
                      notifications[n].stats.total_delivered + by
                 /\ notifications'[n].stats.total_clicked = notifications[n].stats.total_clicked
                 /\ logs' = logs
            /\ trackClicked(n, cid) =>
                 /\ notifications'[n].stats.total_clicked =
                      notifications[n].stats.total_clicked + by
                 /\ notifications'[n].stats.total_delivered = notifications[n].stats.total_delivered
                 /\ logs' = logs]_vars

\* C23 witness: callbacks without a customer were counted for a notification that has no
\* log entry at all
C23_Witness ==
  /\ logs = <<>>
  /\ \E n \in NotifIds :
       /\ notifications[n].status # "none"
       /\ notifications[n].stats.total_delivered = 1
       /\ notifications[n].stats.total_clicked = 1

\* ---------------------------------------------------------------- failed and cancelled
\* C24: a notification in status failed has no Delivery Log entry, credits_consumed 0 and no
\* consumption transaction that refers to it.
C24_FailedNeverAttempted ==
  \A n \in NotifIds :
    notifications[n].status = "failed" =>
      /\ \A i \in 1..Len(logs) : logs[i].notification_id # n
      /\ notifications[n].stats.credits_consumed = 0
      /\ \A i \in 1..Len(transactions) :
           ~(transactions[i].type = "consumption" /\ transactions[i].reference_id = n)

\* C25: once cancelNotification has set the status to cancelled, the status stays cancelled,
\* and no log entry is created, no attempt settles and no consumption is recorded for the
\* notification.
C25_CancelledTerminal ==
  [][\A n \in NotifIds :
       notifications[n].status = "cancelled" =>
         /\ notifications'[n].status = "cancelled"
         /\ \A i \in 1..Len(logs') :
              logs'[i].notification_id = n => (i <= Len(logs) /\ logs'[i] = logs[i])
         /\ \A i \in 1..Len(transactions') :
              (transactions'[i].type = "consumption" /\ transactions'[i].reference_id = n)
                => i <= Len(transactions)]_vars

\* ---------------------------------------------------------------- counters
\* C26: in every state, for every notification,
\* total_delivered + total_failed <= total_sent <= total_targeted.
C26_CounterOrder ==
  \A n \in NotifIds :
    /\ notifications[n].stats.total_delivered + notifications[n].stats.total_failed
         <= notifications[n].stats.total_sent
    /\ notifications[n].stats.total_sent <= notifications[n].stats.total_targeted

\* ---------------------------------------------------------------- ledger arithmetic
\* C27: every transaction of type recharge, consumption, adjustment or reset has
\* balance_after = balance_before + amount, and once no run is in flight a tenant's balance
\* is the balance before its first transaction plus the sum of the amounts of its transactions.
C27_LedgerArithmetic ==
  /\ \A i \in 1..Len(transactions) :
       transactions[i].type \in {"recharge", "consumption", "adjustment", "reset"} =>
         transactions[i].balance_after = transactions[i].balance_before + transactions[i].amount
  /\ \A t \in TenantIds :
       (InFlight = {} /\ TxnsOf(t) # {}) =>
         credits[t].current_balance = FirstBefore(t) + LedgerSum(t, Len(transactions))

\* ---------------------------------------------------------------- deactivated customers
\* C28: a run that resolves its audience while a customer is not active (deactivated by a
\* 404/410 answer or unsubscribed otherwise, and not opted in again since) leaves that
\* customer out, and a run begins attempts and creates log entries only for the customers of
\* the audience it resolved.
C28_GoneStaysOut ==
  [][ /\ \A r \in RunIds, c \in CustomerIds :
           (LoadStep(r) /\ customers[c].opt_in_status # "active") =>
             /\ c \notin runs'[r].audience
             /\ runs'[r].att[c] = "none"
      /\ \A r \in RunIds, c \in CustomerIds :
           (runs[r].att[c] \in {"none", "todo"} /\ runs'[r].att[c] \notin {"none", "todo"}) =>
             /\ c \in runs[r].audience
             /\ runs[r].pc = "fanout"
      /\ Len(logs') > Len(logs) =>
           \E r \in RunIds :
             /\ logs'[Len(logs')].customer_id \in runs[r].audience
             /\ logs'[Len(logs')].notification_id = runs[r].nid
             /\ runs[r].att[logs'[Len(logs')].customer_id] = "todo"
    ]_vars

\* C28 witness: c1 was deactivated by a 410 answer in one run, and another run of the
\* send_to_all notification, resolved afterwards, goes to c2 alone
C28_Witness ==
  /\ customers["c1"].opt_in_status = "unsubscribed"
  /\ customers["c1"].unsubscribe_reason = "Subscription expired or invalid"
  /\ \E i \in 1..Len(logs) : logs[i].customer_id = "c1" /\ logs[i].status = "failed"
  /\ \E r \in RunIds :
       /\ runs[r].pc = "finish"
       /\ runs[r].audience = {"c2"}
       /\ runs[r].att["c1"] = "none"

\* ---------------------------------------------------------------- credit decision of a send
\* C29: a send request for a draft or pending notification is refused for insufficient
\* credits exactly when the tenant's balance is less than the number of customers the
\* audience resolves to at that moment.
C29_SendGateMatchesAudience ==
  [][\A r \in RunIds, n \in NotifIds :
       (SendRequest(r, n) /\ notifications[n].status \in {"draft", "pending"}) =>
         LET now == {c \in CustomerIds :
                       /\ CustomerTenant[c] = notifications[n].tenant_id
                       /\ customers[c].opt_in_status = "active"
                       /\ Selected(notifications[n].targeting, c)}
         IN (resp' = "send_insufficient_credits")
              <=> (credits[notifications[n].tenant_id].current_balance < Cardinality(now))]_vars

\* ---------------------------------------------------------------- liveness of a send
\* C30: every run terminates, and every notification in status sending reaches status sent.
C30_SendTerminates ==
  /\ \A r \in RunIds : (runs[r].pc # "idle") ~> (runs[r].pc = "idle")
  /\ \A n \in NotifIds : (notifications[n].status = "sending") ~> (notifications[n].status = "sent")

\* C30 witness: every run is over and the notification is sent after a fan-out with a
\* success, a transient failure and a 404 answer among its attempts
C30_Witness ==
  /\ InFlight = {}
  /\ notifications["n1"].status = "sent"
  /\ \E i \in 1..Len(logs) : logs[i].status = "sent"
  /\ \E i \in 1..Len(logs) : logs[i].status = "failed" /\ customers[logs[i].customer_id].opt_in_status = "active"
  /\ \E i \in 1..Len(logs) :
       logs[i].status = "failed" /\ customers[logs[i].customer_id].opt_in_status = "unsubscribed"

====
